---- MODULE Spec2Model ----
(***************************************************************************)
(* Model of src/web_crawler.py: the Crawler class (frontier sets, link     *)
(* extraction, the run loop with its try/except/finally structure, the     *)
(* output file and the browser session).                                   *)
(*                                                                         *)
(* A URL is the string the program handles; it is modelled by its parts    *)
(* [scheme, host, path], which is what urljoin and urlparse look at.       *)
(* An href is modelled by its shape (kind) and its parts.                  *)
(* The output file is modelled as the bag of the lines appended to it      *)
(* (the iteration order of a Python set is unspecified).                   *)
(***************************************************************************)
EXTENDS Integers, Sequences, FiniteSets, Bags

\* ------------------------------------------------------------------ bounds
MaxSeeds == 2      \* longest seed list given to the constructor
MaxBudget == 3     \* largest max_urls given to the constructor
MaxAnchors == 2    \* most <a> elements in one downloaded page
MaxListAnchors == 3  \* most <a> elements in the html of a direct call of
                     \* get_linked_urls
MaxPairBudget == 1   \* largest max_urls of two crawlers made side by side

\* The default of max_urls.
DefaultMaxUrls == 100

\* ------------------------------------------------------------- URL strings
Url(s, h, p) == [scheme |-> s, host |-> h, path |-> p]

\* An href attribute value. kind says how the string begins:
\*   "path"     /page1               (starts with '/', not with '//')
\*   "protorel" //host/page          (starts with '/')
\*   "abs"      http(s)://host/page  (starts with 'http')
\*   "httprel"  http.html            (starts with 'http', has no netloc)
\*   "bad"      http://[             (starts with 'http', urlparse raises ValueError)
\*   "other"    '', '#top', 'mailto:a@b', 'javascript:void(0)'
Href(k, s, h, p) == [kind |-> k, scheme |-> s, host |-> h, path |-> p]

\* An <a> element: with an href attribute or without one.
Anchor(has, href) == [hasHref |-> has, href |-> href]

NoHrefValue == Href("other", "", "", "")

SeedUrls ==
    { Url("https", "example.com", ""),
      Url("https", "example.com", "/page1") }

\* The hrefs the pages of a run carry: /page1, https://example.com,
\* https://otherdomain.com/page, //example.com/page2, http://[ and
\* javascript:void(0).
Hrefs ==
    { Href("path", "", "", "/page1"),
      Href("abs", "https", "example.com", ""),
      Href("abs", "https", "otherdomain.com", "/page"),
      Href("protorel", "", "example.com", "/page2"),
      Href("bad", "http", "[", ""),
      Href("other", "", "", "javascript:void(0)") }

Anchors == { Anchor(TRUE, h) : h \in Hrefs } \cup { Anchor(FALSE, NoHrefValue) }

\* The hrefs of the html given to a direct call of get_linked_urls: those
\* of test_link_extraction (/page1, https://example.com/page2,
\* https://otherdomain.com/page) and https://example.com:443/page2,
\* http://example.com/page1, //example.com/page2, //otherdomain.com/page,
\* //[, http://[, http.html, '', #top, mailto:a@b, javascript:void(0).
ListHrefs ==
    { Href("path", "", "", "/page1"),
      Href("abs", "https", "example.com", "/page2"),
      Href("abs", "https", "otherdomain.com", "/page"),
      Href("abs", "https", "example.com:443", "/page2"),
      Href("abs", "http", "example.com", "/page1"),
      Href("protorel", "", "example.com", "/page2"),
      Href("protorel", "", "otherdomain.com", "/page"),
      Href("protorel", "", "[", ""),
      Href("bad", "http", "[", ""),
      Href("httprel", "", "", "http.html"),
      Href("other", "", "", ""),
      Href("other", "", "", "#top"),
      Href("other", "", "", "mailto:a@b"),
      Href("other", "", "", "javascript:void(0)") }

ListAnchors ==
    { Anchor(TRUE, h) : h \in ListHrefs } \cup { Anchor(FALSE, NoHrefValue) }

\* The base_url values of a direct call.
ListBases == { Url("https", "example.com", ""), Url("https", "example.com", "/page1") }

SeqsUpTo(S, n) == UNION { [1..k -> S] : k \in 0..n }

\* The page contents download_url can return: a non-empty string, modelled
\* by the sequence of the <a> elements in it.
Htmls == SeqsUpTo(Anchors, MaxAnchors)

\* The page contents of the web named w: any content, or (for two crawlers
\* side by side) a page without links and a page with the link /page1.
PagesOf(w) ==
    IF w = "any"
    THEN Htmls
    ELSE { << >>, << Anchor(TRUE, Href("path", "", "", "/page1")) >> }

NoUrl == Url("", "", "")

\* The output_file values given to the constructor; the first is the default.
DefaultOutputFile == "visited_links.txt"
OutputFiles == { DefaultOutputFile, "test_visited_links.txt" }

\* The list objects a caller can pass as urls. "default" is the list object
\* of the default argument urls=[], created once when the def is executed.
DefaultList == "default"

\* ------------------------------------------------------------------- state
VARIABLES
    args,           \* history: the arguments __init__ was called with
    urls,           \* self.urls
    urls_id,        \* the list object self.urls refers to
    max_urls,       \* self.max_urls
    output_file,    \* self.output_file
    visited_urls,   \* self.visited_urls
    urls_to_visit,  \* self.urls_to_visit
    file,           \* lines appended to output_file during this run (a bag)
    playwright,     \* self.playwright: "none" | "started" | "stopped"
    browser,        \* self.browser: "none" | "open" | "closed"
    context,        \* self.context: "none" | "open" | "closed"
    page,           \* self.page: "none" | "open" | "closed"
    pc,             \* position of run()
    url,            \* run()'s local url
    downloaded,     \* what download_url gave in this iteration:
                    \* "none" (not called yet) | "content" | "None" | "cancelled"
    todo,           \* hrefs get_linked_urls has still to look at
    crawl_raised,   \* crawl(url) raised an Exception in this iteration
    saved,          \* what save_visited_urls did in this iteration:
                    \* "none" (not called yet) | "ok" | "OSError"
    exc,            \* exception propagating out of run(): "none" or its type
    outcome,        \* "running" | "returned" | "raised"
    fetched,        \* history: the URLs download_url was called with, in order
    delays,         \* history: number of completed asyncio.sleep(5)
    discovered,     \* history: every URL that was ever put into urls_to_visit
    disk,           \* the file system: the lines in each output file (a bag)
    pages,          \* the web: names the page contents a fetch can return
    self_id,        \* which Crawler instance the variables above belong to
    other,          \* the fields of the other Crawler instance (a record)
    base_url,       \* argument of a direct call of get_linked_urls
    html_arg,       \* argument html of a direct call of get_linked_urls
    yielded         \* what list(get_linked_urls(base_url, html)) has collected

vars == << args, urls, urls_id, max_urls, output_file, visited_urls, urls_to_visit,
           file, playwright, browser, context, page, pc, url, downloaded, todo,
           crawl_raised, saved, exc, outcome, fetched, delays, discovered, disk,
           pages, self_id, other, base_url, html_arg, yielded >>

frontier == << visited_urls, urls_to_visit >>
config == << args, urls, urls_id, max_urls, output_file >>
caller == << pages, self_id, other, base_url, html_arg, yielded >>
session == << playwright, browser, context, page >>
locals == << url, downloaded, todo, crawl_raised, saved >>

Range(s) == { s[i] : i \in 1..Len(s) }

\* The arguments of a constructor call: the urls list (its identity and its
\* items), max_urls and output_file.
Arg(i, us, m, f) == [urls_id |-> i, urls |-> us, max_urls |-> m, output_file |-> f]

Args ==
    { Arg(i, us, m, f) : i \in {"caller"}, us \in SeqsUpTo(SeedUrls, MaxSeeds),
                         m \in 0..MaxBudget, f \in OutputFiles }
    \cup { Arg(DefaultList, << >>, m, f) : m \in 0..MaxBudget, f \in OutputFiles }

\* Mutant: the output_file argument is ignored.
New_DefaultOutputFile(a) ==
    [ args |-> a,
      urls |-> a.urls,
      urls_id |-> a.urls_id,
      max_urls |-> a.max_urls,
      output_file |-> DefaultOutputFile,
      visited_urls |-> {},
      urls_to_visit |-> Range(a.urls),
      file |-> EmptyBag,
      playwright |-> "none",
      browser |-> "none",
      context |-> "none",
      page |-> "none",
      pc |-> "idle",
      url |-> NoUrl,
      downloaded |-> "none",
      todo |-> << >>,
      crawl_raised |-> FALSE,
      saved |-> "none",
      exc |-> "none",
      outcome |-> "running",
      fetched |-> << >>,
      delays |-> 0,
      discovered |-> Range(a.urls) ]

\* Crawler.__init__: the fields of the new instance (with the positions and
\* histories of a run that has not started).
New(a) ==
    [ args |-> a,
      urls |-> a.urls,
      urls_id |-> a.urls_id,
      max_urls |-> a.max_urls,
      output_file |-> a.output_file,
      visited_urls |-> {},
      urls_to_visit |-> Range(a.urls),
      file |-> EmptyBag,
      playwright |-> "none",
      browser |-> "none",
      context |-> "none",
      page |-> "none",
      pc |-> "idle",
      url |-> NoUrl,
      downloaded |-> "none",
      todo |-> << >>,
      crawl_raised |-> FALSE,
      saved |-> "none",
      exc |-> "none",
      outcome |-> "running",
      fetched |-> << >>,
      delays |-> 0,
      discovered |-> Range(a.urls) ]

\* The variables of the current instance hold the fields r.
IsInstance(r) ==
    /\ args = r.args
    /\ urls = r.urls
    /\ urls_id = r.urls_id
    /\ max_urls = r.max_urls
    /\ output_file = r.output_file
    /\ visited_urls = r.visited_urls
    /\ urls_to_visit = r.urls_to_visit
    /\ file = r.file
    /\ playwright = r.playwright
    /\ browser = r.browser
    /\ context = r.context
    /\ page = r.page
    /\ pc = r.pc
    /\ url = r.url
    /\ downloaded = r.downloaded
    /\ todo = r.todo
    /\ crawl_raised = r.crawl_raised
    /\ saved = r.saved
    /\ exc = r.exc
    /\ outcome = r.outcome
    /\ fetched = r.fetched
    /\ delays = r.delays
    /\ discovered = r.discovered

\* No second instance, no direct call of get_linked_urls.
NoOther == New(Arg(DefaultList, << >>, DefaultMaxUrls, DefaultOutputFile))

\* One Crawler, constructed and about to run; the output files are empty.
Init ==
    /\ \E a \in Args : IsInstance(New(a))
    /\ disk = [f \in OutputFiles |-> EmptyBag]
    /\ pages = "any"
    /\ self_id = 1
    /\ other = NoOther
    /\ base_url = NoUrl
    /\ html_arg = << >>
    /\ yielded = << >>

\* ------------------------------------------------------- link extraction
\* path.startswith('/')
StartsWithSlash(h) == h.kind \in {"path", "protorel"}

\* path.startswith('http')
StartsWithHttp(h) == h.kind \in {"abs", "httprel", "bad"}

\* Mutant: a reference that starts with '/' is always taken as a path on the
\* base's host.
urljoin_AlwaysBaseHost(base, h) == Url(base.scheme, base.host, h.path)

\* urljoin(base_url, path) for a path that starts with '/': the base's scheme
\* with the base's host ('/x') or with the host the reference names ('//h/x').
urljoin(base, h) ==
    IF h.kind = "protorel"
    THEN Url(base.scheme, h.host, h.path)
    ELSE Url(base.scheme, base.host, h.path)

\* The href string taken as it is (no resolution).
AsUrl(h) == Url(h.scheme, h.host, h.path)

\* urlparse(u) raises ValueError (an unclosed '[' in the netloc).
UrlparseRaises(u) == u.host = "["

\* urlparse(u).netloc
netloc(u) == u.host

\* The value of `path` when the same-domain test is reached.
Resolved(base, h) == IF StartsWithSlash(h) THEN urljoin(base, h) ELSE AsUrl(h)

\* The `continue` branch: neither a leading '/' nor a leading 'http'.
Skipped(h) == ~StartsWithSlash(h) /\ ~StartsWithHttp(h)

\* get_linked_urls raises at this href: urlparse is reached and fails.
Raises(base, h) == ~Skipped(h) /\ UrlparseRaises(Resolved(base, h))

\* Mutant: the netloc of the link is not compared with the base's.
Yields_NoHostFilter(base, h) ==
    IF Skipped(h) THEN {} ELSE {Resolved(base, h)}

\* What one pass of the for loop yields for the href h: nothing, or `path`
\* when its netloc is the base's.
Yields(base, h) ==
    IF Skipped(h) \/ netloc(Resolved(base, h)) # netloc(base)
    THEN {}
    ELSE {Resolved(base, h)}

\* soup.find_all('a', href=True): the href values of the anchors that have one.
FindAllHrefs(as) ==
    LET F[i \in 0..Len(as)] ==
            IF i = 0 THEN << >>
            ELSE IF as[i].hasHref THEN Append(F[i - 1], as[i].href) ELSE F[i - 1]
    IN F[Len(as)]

\* ----------------------------------------------------------------- frontier
\* Mutant: the visited set is not consulted.
add_url_to_visit_NoVisitedCheck(pending, visited, u) ==
    IF u \notin pending THEN pending \cup {u} ELSE pending

\* Crawler.add_url_to_visit: the new value of urls_to_visit.
add_url_to_visit(pending, visited, u) ==
    IF u \notin visited /\ u \notin pending THEN pending \cup {u} ELSE pending

\* Mutant: the budget test is off by one.
ShouldContinue_AtMost(pending, visited, budget) ==
    pending # {} /\ Cardinality(visited) <= budget

\* Mutant: the budget is not tested.
ShouldContinue_NoBudget(pending, visited, budget) ==
    pending # {}

\* The while condition of run().
ShouldContinue(pending, visited, budget) ==
    pending # {} /\ Cardinality(visited) < budget

\* Crawler.save_visited_urls: one line per element of visited_urls is appended.
save_visited_urls(f, visited) == f (+) SetToBag(visited)

\* ---------------------------------------------------------------- run()
\* `await self.init_browser()`, before the try of run(). Its four awaits are
\* driver start, browser launch, context creation, page creation; k of them
\* succeed. A failure leaves run() at once: the call is outside the try.
init_browser ==
    /\ pc = "idle"
    /\ \E k \in 0..4 :
         /\ playwright' = IF k >= 1 THEN "started" ELSE "none"
         /\ browser' = IF k >= 2 THEN "open" ELSE "none"
         /\ context' = IF k >= 3 THEN "open" ELSE "none"
         /\ page' = IF k >= 4 THEN "open" ELSE "none"
         /\ IF k = 4
            THEN pc' = "loop" /\ exc' = "none" /\ outcome' = "running"
            ELSE pc' = "stopped" /\ exc' = "Error" /\ outcome' = "raised"
    /\ UNCHANGED << config, caller, disk, frontier, file, locals, fetched,
                    delays, discovered >>

\* The while condition holds: `url = self.urls_to_visit.pop()` and the call
\* of crawl(url). set.pop() removes an arbitrary element.
RunPop ==
    /\ pc = "loop"
    /\ ShouldContinue(urls_to_visit, visited_urls, max_urls)
    /\ \E u \in urls_to_visit :
         /\ url' = u
         /\ urls_to_visit' = urls_to_visit \ {u}
    /\ downloaded' = "none"
    /\ todo' = << >>
    /\ crawl_raised' = FALSE
    /\ saved' = "none"
    /\ pc' = "download"
    /\ UNCHANGED << config, caller, disk, visited_urls, file, session, exc,
                    outcome, fetched, delays, discovered >>

\* Mutant: an empty seed list is reported as an error.
RunExit_RejectNoSeeds ==
    /\ pc = "loop"
    /\ ~ShouldContinue(urls_to_visit, visited_urls, max_urls)
    /\ pc' = "close"
    /\ exc' = IF urls = << >> THEN "ValueError" ELSE exc
    /\ UNCHANGED << config, caller, disk, frontier, file, session, locals,
                    outcome, fetched, delays, discovered >>

\* The while condition fails: the loop ends and the outer finally runs.
RunExit ==
    /\ pc = "loop"
    /\ ~ShouldContinue(urls_to_visit, visited_urls, max_urls)
    /\ pc' = "close"
    /\ UNCHANGED << config, caller, disk, frontier, file, session, locals, exc,
                    outcome, fetched, delays, discovered >>

\* `html = await self.download_url(url)` and `if html:` in crawl().
\* download_url returns the content, or None after catching an Exception
\* (an empty content is as falsy as None).
\* A cancellation delivered at one of its awaits raises CancelledError, which
\* is not an Exception: it passes the except clauses of download_url and of
\* run() and reaches the inner finally.
download_url ==
    /\ pc = "download"
    /\ fetched' = Append(fetched, url)
    /\ \/ \E html \in PagesOf(pages) :
            /\ downloaded' = "content"
            /\ todo' = FindAllHrefs(html)
            /\ pc' = "extract"
            /\ exc' = exc
       \/ /\ downloaded' = "None"
          /\ todo' = << >>
          /\ pc' = "finally"
          /\ exc' = exc
       \/ /\ downloaded' = "cancelled"
          /\ todo' = << >>
          /\ pc' = "finally"
          /\ exc' = "CancelledError"
    /\ UNCHANGED << config, caller, disk, frontier, file, session, url,
                    crawl_raised, saved, outcome, delays, discovered >>

\* Mutant: run() has no `except Exception`, the ValueError propagates.
get_linked_urls_Uncaught ==
    /\ pc = "extract"
    /\ todo # << >>
    /\ LET h == Head(todo)
       IN  IF Raises(url, h)
           THEN /\ crawl_raised' = TRUE
                /\ todo' = << >>
                /\ pc' = "finally"
                /\ exc' = "ValueError"
                /\ UNCHANGED << urls_to_visit, discovered >>
           ELSE /\ urls_to_visit' =
                     IF Yields(url, h) = {}
                     THEN urls_to_visit
                     ELSE add_url_to_visit(urls_to_visit, visited_urls,
                                           Resolved(url, h))
                /\ discovered' = discovered \cup urls_to_visit'
                /\ todo' = Tail(todo)
                /\ UNCHANGED << crawl_raised, pc, exc >>
    /\ UNCHANGED << config, caller, disk, visited_urls, file, session, url,
                    downloaded, saved, outcome, fetched, delays >>

\* One pass of the for loop of get_linked_urls, with the add_url_to_visit
\* call of crawl() for the URL it yields. A ValueError of urlparse leaves
\* crawl() and is caught (and logged) by `except Exception` in run().
get_linked_urls ==
    /\ pc = "extract"
    /\ todo # << >>
    /\ LET h == Head(todo)
       IN  IF Raises(url, h)
           THEN /\ crawl_raised' = TRUE
                /\ todo' = << >>
                /\ pc' = "finally"
                /\ UNCHANGED << urls_to_visit, discovered >>
           ELSE /\ urls_to_visit' =
                     IF Yields(url, h) = {}
                     THEN urls_to_visit
                     ELSE add_url_to_visit(urls_to_visit, visited_urls,
                                           Resolved(url, h))
                /\ discovered' = discovered \cup urls_to_visit'
                /\ todo' = Tail(todo)
                /\ UNCHANGED << crawl_raised, pc >>
    /\ UNCHANGED << config, caller, disk, visited_urls, file, session, url,
                    downloaded, saved, exc, outcome, fetched, delays >>

\* The generator is exhausted: crawl() returns.
CrawlReturn ==
    /\ pc = "extract"
    /\ todo = << >>
    /\ pc' = "finally"
    /\ UNCHANGED << config, caller, disk, frontier, file, session, locals, exc,
                    outcome, fetched, delays, discovered >>

\* Mutant: a URL whose download failed is put back into urls_to_visit, to be
\* tried again, instead of being marked visited.
RunFinally_RetryFailed ==
    /\ pc = "finally"
    /\ visited_urls' = IF downloaded = "None" THEN visited_urls
                       ELSE visited_urls \cup {url}
    /\ urls_to_visit' = IF downloaded = "None" THEN urls_to_visit \cup {url}
                        ELSE urls_to_visit
    /\ file' = save_visited_urls(file, visited_urls')
    /\ disk' = [disk EXCEPT ![output_file] = save_visited_urls(@, visited_urls')]
    /\ saved' = "ok"
    /\ exc' = exc
    /\ pc' = IF exc = "none" THEN "sleep" ELSE "close"
    /\ UNCHANGED << config, caller, session, url, downloaded, todo, crawl_raised,
                    outcome, fetched, delays, discovered >>

\* Mutant: a failed iteration goes back to the loop head without the delay.
RunFinally_SkipDelay ==
    /\ pc = "finally"
    /\ visited_urls' = visited_urls \cup {url}
    /\ \/ /\ file' = save_visited_urls(file, visited_urls')
          /\ disk' = [disk EXCEPT ![output_file] =
                                  save_visited_urls(@, visited_urls')]
          /\ saved' = "ok"
          /\ exc' = exc
          /\ pc' = IF exc # "none" THEN "close"
                ELSE IF downloaded = "None" \/ crawl_raised THEN "loop" ELSE "sleep"
       \/ /\ \E written \in SUBSET visited_urls' :
                /\ file' = save_visited_urls(file, written)
                /\ disk' = [disk EXCEPT ![output_file] =
                                        save_visited_urls(@, written)]
          /\ saved' = "OSError"
          /\ exc' = "OSError"
          /\ pc' = "close"
    /\ UNCHANGED << config, caller, urls_to_visit, session, url, downloaded,
                    todo, crawl_raised, outcome, fetched, delays, discovered >>

\* Mutant: the OSError of the write is logged and the loop goes on.
RunFinally_SwallowSinkError ==
    /\ pc = "finally"
    /\ visited_urls' = visited_urls \cup {url}
    /\ \/ /\ file' = save_visited_urls(file, visited_urls')
          /\ disk' = [disk EXCEPT ![output_file] =
                                  save_visited_urls(@, visited_urls')]
          /\ saved' = "ok"
          /\ exc' = exc
          /\ pc' = IF exc = "none" THEN "sleep" ELSE "close"
       \/ /\ \E written \in SUBSET visited_urls' :
                /\ file' = save_visited_urls(file, written)
                /\ disk' = [disk EXCEPT ![output_file] =
                                        save_visited_urls(@, written)]
          /\ saved' = "OSError"
          /\ exc' = exc
          /\ pc' = IF exc = "none" THEN "sleep" ELSE "close"
    /\ UNCHANGED << config, caller, urls_to_visit, session, url, downloaded,
                    todo, crawl_raised, outcome, fetched, delays, discovered >>

\* The inner finally of run(): `self.visited_urls.add(url)` and
\* `self.save_visited_urls()`, which appends to the file named output_file
\* (open(self.output_file, 'a')). The write either appends every element of
\* visited_urls, or raises OSError after appending some of them; the OSError
\* replaces a CancelledError on its way and leaves the loop. After a
\* successful write a CancelledError goes on to the outer finally.
RunFinally ==
    /\ pc = "finally"
    /\ visited_urls' = visited_urls \cup {url}
    /\ \/ /\ file' = save_visited_urls(file, visited_urls')
          /\ disk' = [disk EXCEPT ![output_file] =
                                  save_visited_urls(@, visited_urls')]
          /\ saved' = "ok"
          /\ exc' = exc
          /\ pc' = IF exc = "none" THEN "sleep" ELSE "close"
       \/ /\ \E written \in SUBSET visited_urls' :
                /\ file' = save_visited_urls(file, written)
                /\ disk' = [disk EXCEPT ![output_file] =
                                        save_visited_urls(@, written)]
          /\ saved' = "OSError"
          /\ exc' = "OSError"
          /\ pc' = "close"
    /\ UNCHANGED << config, caller, urls_to_visit, session, url, downloaded,
                    todo, crawl_raised, outcome, fetched, delays, discovered >>

\* `await asyncio.sleep(5)`: it elapses, or a cancellation is delivered.
Sleep ==
    /\ pc = "sleep"
    /\ \/ /\ delays' = delays + 1
          /\ pc' = "loop"
          /\ exc' = exc
       \/ /\ delays' = delays
          /\ pc' = "close"
          /\ exc' = "CancelledError"
    /\ UNCHANGED << config, caller, disk, frontier, file, session, locals,
                    outcome, fetched, discovered >>

\* Mutant: the session is closed after the loop, not in a finally.
close_browser_OnlyOnSuccess ==
    /\ pc = "close"
    /\ browser' = IF exc = "none" THEN "closed" ELSE browser
    /\ context' = IF exc = "none" THEN "closed" ELSE context
    /\ page' = IF exc = "none" THEN "closed" ELSE page
    /\ playwright' = IF exc = "none" THEN "stopped" ELSE playwright
    /\ pc' = "stopped"
    /\ outcome' = IF exc = "none" THEN "returned" ELSE "raised"
    /\ UNCHANGED << config, caller, disk, frontier, file, locals, exc, fetched,
                    delays, discovered >>

\* The outer finally of run(): `await self.close_browser()`, then run()
\* returns or re-raises the exception on its way.
close_browser ==
    /\ pc = "close"
    /\ browser' = "closed"
    /\ context' = "closed"
    /\ page' = "closed"
    /\ playwright' = "stopped"
    /\ pc' = "stopped"
    /\ outcome' = IF exc = "none" THEN "returned" ELSE "raised"
    /\ UNCHANGED << config, caller, disk, frontier, file, locals, exc, fetched,
                    delays, discovered >>

\* ------------------------------------- a direct call of get_linked_urls
\* test_link_extraction: crawler = Crawler(urls=[]) and
\* list(crawler.get_linked_urls(base_url, html)), about to start.
ListInit ==
    /\ \E b \in ListBases, h \in SeqsUpTo(ListAnchors, MaxListAnchors) :
         /\ base_url = b
         /\ html_arg = h
         /\ IsInstance([New(Arg("caller", << >>, DefaultMaxUrls, DefaultOutputFile))
                           EXCEPT !.pc = "listing", !.todo = FindAllHrefs(h)])
    /\ yielded = << >>
    /\ disk = [f \in OutputFiles |-> EmptyBag]
    /\ pages = "any"
    /\ self_id = 1
    /\ other = NoOther

\* One pass of the for loop of get_linked_urls; list() appends what it
\* yields. A ValueError of urljoin or urlparse ends the call.
ListNext ==
    /\ pc = "listing"
    /\ todo # << >>
    /\ LET h == Head(todo)
       IN  IF Raises(base_url, h)
           THEN /\ pc' = "list_raised"
                /\ todo' = << >>
                /\ yielded' = yielded
           ELSE /\ yielded' = IF Yields(base_url, h) = {}
                              THEN yielded
                              ELSE Append(yielded, Resolved(base_url, h))
                /\ todo' = Tail(todo)
                /\ pc' = pc
    /\ UNCHANGED << config, frontier, file, session, url, downloaded, crawl_raised,
                    saved, exc, outcome, fetched, delays, discovered, disk, pages,
                    self_id, other, base_url, html_arg >>

\* The generator is exhausted: list() returns.
ListDone ==
    /\ pc = "listing"
    /\ todo = << >>
    /\ pc' = "listed"
    /\ UNCHANGED << config, caller, frontier, file, session, url, downloaded, todo,
                    crawl_raised, saved, exc, outcome, fetched, delays, discovered,
                    disk >>

ListStep ==
    \/ ListNext
    \/ ListDone

ListSpec == ListInit /\ [][ListStep]_vars

\* The fields of the current instance, as a record.
This ==
    [ args |-> args,
      urls |-> urls,
      urls_id |-> urls_id,
      max_urls |-> max_urls,
      output_file |-> output_file,
      visited_urls |-> visited_urls,
      urls_to_visit |-> urls_to_visit,
      file |-> file,
      playwright |-> playwright,
      browser |-> browser,
      context |-> context,
      page |-> page,
      pc |-> pc,
      url |-> url,
      downloaded |-> downloaded,
      todo |-> todo,
      crawl_raised |-> crawl_raised,
      saved |-> saved,
      exc |-> exc,
      outcome |-> outcome,
      fetched |-> fetched,
      delays |-> delays,
      discovered |-> discovered ]

\* After the step the variables of the current instance hold the fields r.
Becomes(r) ==
    /\ args' = r.args
    /\ urls' = r.urls
    /\ urls_id' = r.urls_id
    /\ max_urls' = r.max_urls
    /\ output_file' = r.output_file
    /\ visited_urls' = r.visited_urls
    /\ urls_to_visit' = r.urls_to_visit
    /\ file' = r.file
    /\ playwright' = r.playwright
    /\ browser' = r.browser
    /\ context' = r.context
    /\ page' = r.page
    /\ pc' = r.pc
    /\ url' = r.url
    /\ downloaded' = r.downloaded
    /\ todo' = r.todo
    /\ crawl_raised' = r.crawl_raised
    /\ saved' = r.saved
    /\ exc' = r.exc
    /\ outcome' = r.outcome
    /\ fetched' = r.fetched
    /\ delays' = r.delays
    /\ discovered' = r.discovered

\* The arguments of two crawlers made side by side: one seed each, as in
\* main(), or the default arguments.
PairArgs ==
    { Arg("caller", << u >>, m, f) : u \in SeedUrls, m \in 1..MaxPairBudget,
                                     f \in OutputFiles }
    \cup { Arg(DefaultList, << >>, DefaultMaxUrls, DefaultOutputFile) }

\* Two Crawlers, constructed; the run of the first is about to start.
PairInit ==
    /\ \E a1 \in PairArgs, a2 \in PairArgs :
          /\ IsInstance(New(a1))
          /\ other = New(a2)
    /\ disk = [f \in OutputFiles |-> EmptyBag]
    /\ pages = "few"
    /\ self_id = 1
    /\ base_url = NoUrl
    /\ html_arg = << >>
    /\ yielded = << >>

\* The run of the other crawler goes on: the current run is suspended at an
\* await, or has ended, and the other one has not ended.
Switch ==
    /\ other.pc # "stopped"
    /\ Becomes(other)
    /\ other' = This
    /\ self_id' = 3 - self_id
    /\ UNCHANGED << disk, pages, base_url, html_arg, yielded >>

Next ==
    \/ init_browser
    \/ RunPop
    \/ RunExit
    \/ download_url
    \/ get_linked_urls
    \/ CrawlReturn
    \/ RunFinally
    \/ Sleep
    \/ close_browser

Spec == Init /\ [][Next]_vars

\* run() is a coroutine the event loop keeps resuming: every await of a
\* fetch, of the delay and of the browser calls completes (or raises).
FairSpec == Spec /\ WF_vars(Next)

PairNext == Next \/ Switch

PairSpec == PairInit /\ [][PairNext]_vars

\* ------------------------------------------------------------------ claims
A == Url("https", "example.com", "")
B == Url("https", "example.com", "/page1")
C == Url("https", "example.com", "/page2")

\* The current iteration's fetch or link extraction failed.
FetchFailed == downloaded = "None" \/ crawl_raised

\* C1: in every reachable state the pending set and the visited set are
\* disjoint, also for pages that link to themselves.
C1_PendingVisitedDisjoint == urls_to_visit \cap visited_urls = {}

\* C2: the number of visited URLs never exceeds max_urls.
C2_VisitedWithinBudget == Cardinality(visited_urls) <= max_urls

C2_Witness ==
    /\ pc = "stopped"
    /\ max_urls = 2
    /\ Cardinality(visited_urls) = max_urls
    /\ urls_to_visit # {}

\* C3: every URL goes pending -> visited exactly once: nothing leaves the
\* visited set, and a URL that is popped has not been visited and has not
\* been fetched before.
C3_VisitedExactlyOnce ==
    [][ /\ visited_urls \subseteq visited_urls'
        /\ (pc = "loop" /\ pc' = "download") =>
               (url' \notin visited_urls /\ url' \notin Range(fetched)) ]_vars

\* C4: a failed fetch or a failed link extraction raises nothing out of the
\* iteration; the URL is in visited when the inner finally has run; when the
\* write of that iteration succeeds the loop goes on to the delay, then to
\* the loop head, and pops the next URL if the while condition holds.
C4_FailureIsolated ==
    [][ /\ (pc' = "finally" /\ FetchFailed') =>
               (exc' = "none" /\ outcome' = "running")
        /\ (pc = "finally" /\ FetchFailed) =>
               /\ url \in visited_urls'
               /\ saved' = "ok" => (pc' = "sleep" /\ outcome' = "running")
        /\ (pc = "sleep" /\ FetchFailed /\ exc' = "none") =>
               (pc' = "loop" /\ outcome' = "running")
        /\ (pc = "loop" /\ FetchFailed /\ urls_to_visit # {}
                /\ Cardinality(visited_urls) < max_urls) =>
               (pc' = "download" /\ url' \in urls_to_visit) ]_vars

C4_Witness ==
    /\ pc = "loop"
    /\ FetchFailed
    /\ saved = "ok"
    /\ url \in visited_urls
    /\ outcome = "running"
    /\ urls_to_visit # {}
    /\ Cardinality(visited_urls) < max_urls

\* C5: at the loop head another iteration starts iff pending is non-empty
\* and |visited| < max_urls; no URL is popped or fetched once |visited| has
\* reached max_urls; at Stopped every discovered URL that is not visited is
\* still pending.
C5_LoopCondition ==
    [][ /\ pc = "loop" =>
               ((pc' = "download") <=>
                    (urls_to_visit # {} /\ Cardinality(visited_urls) < max_urls))
        /\ (pc' = "download" \/ fetched' # fetched) =>
               Cardinality(visited_urls) < max_urls
        /\ pc' = "stopped" =>
               (discovered' \ visited_urls') \subseteq urls_to_visit' ]_vars

C5_Witness ==
    /\ pc = "stopped"
    /\ outcome = "returned"
    /\ max_urls = 1
    /\ urls = << A >>
    /\ fetched = << A >>
    /\ visited_urls = {A}
    /\ urls_to_visit = {B, C}

\* C6: the lines appended to the output file during one run contain no
\* URL twice.
C6_NoDuplicateLines == \A u \in BagToSet(file) : CopiesIn(u, file) = 1

\* C7: when a fetch is about to start, every earlier fetch of the run has
\* been followed by a completed delay; a delay starts only when the URL of
\* the iteration is in visited and in the output file.
C7_DelayBetweenFetches ==
    /\ Len(fetched) <= delays + 1
    /\ pc = "download" => delays = Len(fetched)
    /\ pc = "sleep" => (url \in visited_urls /\ BagIn(url, file))

C7_Witness ==
    /\ pc = "download"
    /\ Len(fetched) = 2
    /\ delays = 2

\* C8: a step that offers the URL u changes urls_to_visit to
\* urls_to_visit \cup {u} when u is in neither set, leaves it unchanged
\* otherwise, and never changes visited_urls.
C8_OfferSemantics ==
    [][ (pc = "extract" /\ todo # << >> /\ ~Raises(url, Head(todo))) =>
            \A u \in Yields(url, Head(todo)) :
                /\ visited_urls' = visited_urls
                /\ (u \notin urls_to_visit /\ u \notin visited_urls) =>
                       urls_to_visit' = urls_to_visit \cup {u}
                /\ (u \in urls_to_visit \/ u \in visited_urls) =>
                       urls_to_visit' = urls_to_visit ]_vars

C8_Witness ==
    /\ pc = "extract"
    /\ todo # << >>
    /\ ~Raises(url, Head(todo))
    /\ \E u \in Yields(url, Head(todo)) : u \in visited_urls /\ u # url

\* C9: when run() has acquired the session (init_browser completed), it
\* never stops with the browser open or the driver running.
C9_SessionReleased ==
    (pc = "stopped" /\ page # "none") =>
        (browser = "closed" /\ playwright = "stopped" /\ page = "closed")

C9_Witness ==
    /\ pc = "stopped"
    /\ exc = "CancelledError"
    /\ fetched # << >>
    /\ browser = "closed"
    /\ playwright = "stopped"

\* C10: a failed write ends the loop at once with the OSError on its way;
\* after it nothing is fetched and the only step left releases the browser
\* and raises the error to the caller of run().
C10_SinkErrorFatal ==
    [][ /\ (saved' = "OSError" /\ saved # "OSError") =>
               (pc' = "close" /\ exc' = "OSError")
        /\ saved = "OSError" =>
               /\ pc' = "stopped"
               /\ fetched' = fetched
               /\ outcome' = "raised"
               /\ exc' = "OSError"
               /\ browser' = "closed"
               /\ playwright' = "stopped" ]_vars

C10_Witness ==
    /\ pc = "stopped"
    /\ saved = "OSError"
    /\ outcome = "raised"
    /\ urls_to_visit # {}
    /\ Cardinality(visited_urls) < max_urls

\* urlparse(u).hostname for the netlocs of the model: the port is not part
\* of the host.
Hostname(n) == IF n = "example.com:443" THEN "example.com" ELSE n

\* C11: a Crawler with an empty seed list ends in an error outcome when it
\* is run.
C11_EmptySeedsIsError ==
    (urls = << >> /\ pc = "stopped") => outcome = "raised"

\* C11 (amended): a Crawler with an empty seed list fetches nothing, visits
\* nothing and writes nothing, and once the browser has started its run
\* returns normally.
C11_EmptySeedsCompletes ==
    urls = << >> =>
        /\ visited_urls = {}
        /\ fetched = << >>
        /\ file = EmptyBag
        /\ (pc = "stopped" /\ page # "none") => outcome = "returned"

C11_Witness ==
    /\ urls = << >>
    /\ pc = "stopped"
    /\ outcome = "returned"
    /\ browser = "closed"

\* C13: when crawl(url) has completed with page content, every link it
\* extracted is in urls_to_visit and url is in visited_urls.
C13_CrawlMarksVisited ==
    [][ /\ (pc = "extract" /\ todo # << >> /\ ~Raises(url, Head(todo))) =>
               \A u \in Yields(url, Head(todo)) : u \in urls_to_visit'
        /\ (pc = "extract" /\ pc' = "finally" /\ ~crawl_raised') =>
               url \in visited_urls' ]_vars

\* C17: right after construction visited is empty, pending is the set of the
\* seed URLs given, and urls, max_urls and output_file are the arguments.
C17_Construction ==
    pc = "idle" =>
        /\ visited_urls = {}
        /\ urls_to_visit = { args.urls[i] : i \in 1..Len(args.urls) }
        /\ urls = args.urls
        /\ max_urls = args.max_urls
        /\ output_file = args.output_file

C17_Witness ==
    /\ pc = "idle"
    /\ Len(urls) = 2
    /\ Cardinality(urls_to_visit) = 1
    /\ output_file # DefaultOutputFile
    /\ max_urls = 2

\* C18: the number of fetch attempts of a run never exceeds max_urls.
C18_FetchesWithinBudget == Len(fetched) <= max_urls

\* C19: every URL that is pending, visited or fetched has the host of some
\* seed URL.
C19_StaysOnSeedHosts ==
    \A u \in urls_to_visit \cup visited_urls \cup Range(fetched) :
        \E sd \in Range(urls) : Hostname(netloc(u)) = Hostname(netloc(sd))

C19_Witness ==
    /\ Len(urls) = 1
    /\ pc = "stopped"
    /\ visited_urls = {A, B, C}

\* C20: run() never stops with a started resource left unreleased, also
\* when init_browser fails part-way.
C20_NoResourceLeftOpen ==
    pc = "stopped" =>
        /\ playwright # "started"
        /\ browser # "open"
        /\ context # "open"
        /\ page # "open"

\* The hrefs of test_link_extraction and what the test expects for them.
TestHtml ==
    << Anchor(TRUE, Href("path", "", "", "/page1")),
       Anchor(TRUE, Href("abs", "https", "example.com", "/page2")),
       Anchor(TRUE, Href("abs", "https", "otherdomain.com", "/page")) >>

\* h is a leading-slash path, or an http/https URL on the host of base.
OnBaseHost(base, h) ==
    \/ h.kind = "path"
    \/ /\ h.kind = "abs"
       /\ h.scheme \in {"http", "https"}
       /\ Hostname(h.host) = Hostname(netloc(base))

\* C14: a direct call emits a URL only if its host is the base's host, and
\* emits (in document order, without deduplication) every href that is a
\* leading-slash path, resolved against the base's scheme and host, or an
\* http/https URL on the base's host; for the html of test_link_extraction
\* it yields exactly the first two links.
C14_EmitsSameHostLinks ==
    [][ /\ (pc = "listing" /\ todo # << >>) =>
               LET h == Head(todo)
               IN  /\ OnBaseHost(base_url, h) =>
                          yielded' = Append(yielded,
                              IF h.kind = "path"
                              THEN Url(base_url.scheme, base_url.host, h.path)
                              ELSE Url(h.scheme, h.host, h.path))
                   /\ \A i \in 1..Len(yielded') :
                          Hostname(netloc(yielded'[i])) = Hostname(netloc(base_url))
        /\ (pc' = "listed" /\ base_url = A /\ html_arg = TestHtml) =>
               yielded' = << B, C >> ]_vars

\* The href is empty, fragment-only, mailto:, javascript:, protocol-relative,
\* or otherwise neither a leading-slash path nor a URL with scheme http(s).
NotALink(h) == h.kind \in {"other", "protorel", "httprel"}

\* C15: a direct call emits nothing for an href that is empty,
\* fragment-only, mailto:, javascript:, protocol-relative or otherwise
\* neither a leading-slash path nor an http(s) URL, and does not raise;
\* anchors with no href are skipped.
C15_DiscardsNonLinks ==
    [][ (pc = "listing" /\ todo # << >>) =>
            /\ Len(todo) <= Cardinality({ i \in 1..Len(html_arg) :
                                             html_arg[i].hasHref })
            /\ NotALink(Head(todo)) => (yielded' = yielded /\ pc' = "listing") ]_vars

\* C15 (amended): nothing is emitted, and nothing raised, for an href that
\* starts with neither '/' nor 'http' or that starts with 'http' and has no
\* netloc; anchors with no href are skipped. A protocol-relative href is
\* resolved with the base's scheme and emitted iff its netloc is the base's;
\* a malformed one raises.
C15_DiscardsNonLinksButProtocolRelative ==
    [][ (pc = "listing" /\ todo # << >>) =>
            LET h == Head(todo)
            IN  /\ Len(todo) <= Cardinality({ i \in 1..Len(html_arg) :
                                                 html_arg[i].hasHref })
                /\ h.kind \in {"other", "httprel"} =>
                       (yielded' = yielded /\ pc' = "listing")
                /\ (h.kind = "protorel" /\ h.host # "[") =>
                       /\ pc' = "listing"
                       /\ yielded' = IF h.host = base_url.host
                                     THEN Append(yielded,
                                              Url(base_url.scheme, h.host, h.path))
                                     ELSE yielded
                /\ (h.kind = "protorel" /\ h.host = "[") =>
                       (pc' = "list_raised" /\ yielded' = yielded) ]_vars

C15_Witness ==
    /\ pc = "listed"
    /\ base_url = A
    /\ html_arg = << Anchor(TRUE, Href("other", "", "", "javascript:void(0)")),
                     Anchor(FALSE, NoHrefValue),
                     Anchor(TRUE, Href("protorel", "", "example.com", "/page2")) >>
    /\ yielded = << C >>

\* C12: two Crawler instances share no mutable state: a step of one leaves
\* the other's pending set, visited set and output file unchanged, and when
\* both runs have ended each output file holds what its crawler wrote.
C12_InstancesShareNothing ==
    [][ /\ self_id' = self_id =>
               /\ other'.urls_to_visit = other.urls_to_visit
               /\ other'.visited_urls = other.visited_urls
               /\ disk'[other.output_file] = disk[other.output_file]
        /\ (pc' = "stopped" /\ other'.pc = "stopped") =>
               /\ disk'[output_file'] = file'
               /\ disk'[other'.output_file] = other'.file ]_vars

\* What is left of the budget, counted twice, plus the visited URLs that are
\* pending again, less one while a URL that is not yet visited is in hand.
Progress ==
    2 * (max_urls - Cardinality(visited_urls))
    + Cardinality(visited_urls \cap urls_to_visit)
    - (IF pc \in {"download", "extract", "finally"} /\ url \notin visited_urls
       THEN 1 ELSE 0)

\* The steps left inside one iteration of the loop.
StepsLeft ==
    CASE pc = "stopped"  -> 0
      [] pc = "close"    -> 1
      [] pc = "loop"     -> 2
      [] pc = "sleep"    -> 3
      [] pc = "finally"  -> 4
      [] pc = "extract"  -> 5 + Len(todo)
      [] pc = "download" -> 6 + MaxAnchors
      [] OTHER           -> 0

\* A variant of run(): a natural number that every step makes smaller.
Measure ==
    IF pc = "idle"
    THEN (MaxAnchors + 7) * (Progress + 1)
    ELSE (MaxAnchors + 7) * Progress + StepsLeft

\* C16: every run terminates. When every await completes the run reaches
\* "stopped"; every step of run() decreases a natural-number variant and a
\* run that has not stopped can take a step, so it does so after finitely
\* many iterations (at most 2 * max_urls fetches); a run that returns stops
\* with urls_to_visit empty or |visited_urls| >= max_urls.
C16_RunTerminates ==
    /\ <>(pc = "stopped")
    /\ [][Measure' < Measure]_vars
    /\ [](Measure >= 0)
    /\ [](pc # "stopped" => ENABLED Next)
    /\ [](Len(fetched) <= 2 * max_urls)
    /\ []((pc = "stopped" /\ outcome = "returned") =>
              (urls_to_visit = {} \/ Cardinality(visited_urls) >= max_urls))

C16_Witness ==
    /\ pc = "stopped"
    /\ outcome = "returned"
    /\ Len(fetched) = 3
    /\ delays = 3
    /\ Cardinality(visited_urls) = max_urls
    /\ urls_to_visit # {}

====
